---- MODULE Spec2Model ----
(***************************************************************************)
(* A model of node-mem/mem.py: KubernetesMemoryAnalyzer.                   *)
(*                                                                         *)
(* Strings are sequences of one-character strings, so that the regular     *)
(* expression of parse_memory and str.rstrip act on characters.            *)
(* An Optional value is a sequence: <<>> is None and <<v>> is the value v.  *)
(* A call that can raise returns Ok(v) or Raise(e).                        *)
(***************************************************************************)
EXTENDS Integers, Sequences, FiniteSets, TLC

VARIABLES
    pc,                  \* where run() is
    nodes,               \* analyze_nodes: the listed nodes
    i,                   \* analyze_nodes: index of the node the loop is at
    node_table,          \* analyze_nodes: the rows added so far
    high_usage_nodes,    \* analyze_nodes / run: names of the high-usage nodes
    h,                   \* run: index into high_usage_nodes
    pods,                \* analyze_pods_on_node: the listed pods
    j,                   \* analyze_pods_on_node: index of the pod the loop is at
    pod_table,           \* analyze_pods_on_node: the rows added so far
    highest_usage_pod,   \* analyze_pods_on_node: Optional pod
    highest_usage,       \* analyze_pods_on_node: usage of that pod
    controller,          \* analyze_controller: Optional [kind, name, namespace]
    controller_pods,     \* analyze_controller: the pods of the controller
    k,                   \* analyze_controller: index of the pod the loop is at
    controller_table,    \* analyze_controller: the rows added so far
    console,             \* the tables and analyze_controller's error lines printed, in order
    requests,            \* metrics API: the requests received, in order
    measured,            \* what get_memory_utilization returned in the current loop
    value,               \* parse_memory: its argument
    parsed,              \* parse_memory: Optional result
    call,                \* get_memory_utilization: resource type and API response
    fetched              \* get_memory_utilization: Optional return value

runVars == <<pc, nodes, i, node_table, high_usage_nodes, h, pods, j, pod_table,
             highest_usage_pod, highest_usage, controller, controller_pods, k,
             controller_table, console, requests, measured>>
parseVars == <<value, parsed>>
fetchVars == <<call, fetched>>
vars == <<runVars, parseVars, fetchVars>>

----------------------------------------------------------------------------
(* Bounds of the model. *)

MaxLen == 3          \* longest argument of parse_memory drawn from Alphabet
MaxContainers == 2   \* most containers in a pod's metrics
MaxNodes == 2        \* most nodes list_node returns

----------------------------------------------------------------------------
(* Values. *)

None == <<>>
Some(v) == <<v>>

Ok(v) == [ok |-> TRUE, value |-> v]
Raise(e) == [ok |-> FALSE, error |-> e]

Digits == {"0", "1", "2", "3", "4", "5", "6", "7", "8", "9"}

Letters ==
    {"a", "b", "c", "d", "e", "f", "g", "h", "i", "j", "k", "l", "m",
     "n", "o", "p", "q", "r", "s", "t", "u", "v", "w", "x", "y", "z",
     "A", "B", "C", "D", "E", "F", "G", "H", "I", "J", "K", "L", "M",
     "N", "O", "P", "Q", "R", "S", "T", "U", "V", "W", "X", "Y", "Z"}

DigitValue(c) ==
    CASE c = "0" -> 0 [] c = "1" -> 1 [] c = "2" -> 2 [] c = "3" -> 3
      [] c = "4" -> 4 [] c = "5" -> 5 [] c = "6" -> 6 [] c = "7" -> 7
      [] c = "8" -> 8 [] c = "9" -> 9

\* int(s) for a string of decimal digits.
RECURSIVE IntOf(_)
IntOf(s) ==
    IF s = <<>> THEN 0
    ELSE IntOf(SubSeq(s, 1, Len(s) - 1)) * 10 + DigitValue(s[Len(s)])

----------------------------------------------------------------------------
(* parse_memory *)

\* units = {"Ki": 1 / 1024, "M": 1, "Mi": 1, "G": 1024, "Gi": 1024}, each
\* factor as a fraction.
units ==
    [u \in {<<"K", "i">>, <<"M">>, <<"M", "i">>, <<"G">>, <<"G", "i">>} |->
        IF u = <<"K", "i">> THEN [num |-> 1, den |-> 1024]
        ELSE IF u \in {<<"G">>, <<"G", "i">>} THEN [num |-> 1024, den |-> 1]
        ELSE [num |-> 1, den |-> 1]]

\* Python's $ (no MULTILINE) at position p of s: the end of the string, or
\* just before a newline that is the last character.
AtDollar(s, p) ==
    \/ p = Len(s) + 1
    \/ p = Len(s) /\ s[p] = "\n"

\* re.match(r"^(\d+)([a-zA-Z]+)?$", s): the ways to read s as d digits, then
\* l letters, then $.  <<d, l>> with d >= 1; l = 0 is group 2 absent.
ReMatches(s) ==
    {m \in (1..Len(s)) \X (0..Len(s)) :
        /\ m[1] + m[2] <= Len(s)
        /\ \A x \in 1..m[1] : s[x] \in Digits
        /\ \A x \in (m[1] + 1)..(m[1] + m[2]) : s[x] \in Letters
        /\ AtDollar(s, m[1] + m[2] + 1)}

parse_memory(s) ==
    IF ReMatches(s) = {} THEN Raise("Invalid memory format")
    ELSE
        LET m == CHOOSE x \in ReMatches(s) : TRUE
            number == IntOf(SubSeq(s, 1, m[1]))
            group2 == SubSeq(s, m[1] + 1, m[1] + m[2])
            unit == IF group2 = <<>> THEN <<"M">> ELSE group2
        IN  IF unit \notin DOMAIN units THEN Raise("Unsupported memory unit")
            \* int(number * units[unit]): number >= 0, so int() is the floor.
            ELSE Ok((number * units[unit].num) \div units[unit].den)

----------------------------------------------------------------------------
(* get_memory_utilization *)

\* NodeMetrics(**metrics): every field of the model is required, an extra
\* key is ignored.
ValidResourceUsage(d) == {"cpu", "memory"} \subseteq DOMAIN d

ValidNodeMetrics(d) ==
    /\ {"apiVersion", "kind", "metadata", "timestamp", "window", "usage"}
           \subseteq DOMAIN d
    /\ ValidResourceUsage(d.usage)

ValidContainerUsage(d) ==
    /\ {"name", "usage"} \subseteq DOMAIN d
    /\ ValidResourceUsage(d.usage)

ValidPodMetrics(d) ==
    /\ {"apiVersion", "kind", "metadata", "timestamp", "window", "containers"}
           \subseteq DOMAIN d
    /\ \A x \in 1..Len(d.containers) : ValidContainerUsage(d.containers[x])

\* A mutant of SumMemory: a quantity that does not parse is left out of the sum.
RECURSIVE SumMemory_SkipUnparsed(_)
SumMemory_SkipUnparsed(containers) ==
    IF containers = <<>> THEN Ok(0)
    ELSE LET first == parse_memory(Head(containers).usage.memory)
             rest == SumMemory_SkipUnparsed(Tail(containers))
         IN  Ok((IF first.ok THEN first.value ELSE 0) + rest.value)

\* sum(self.parse_memory(container.usage.memory) for container in containers):
\* the first quantity that fails to parse raises.
RECURSIVE SumMemory(_)
SumMemory(containers) ==
    IF containers = <<>> THEN Ok(0)
    ELSE LET first == parse_memory(Head(containers).usage.memory)
             rest == SumMemory(Tail(containers))
         IN  IF ~first.ok THEN first
             ELSE IF ~rest.ok THEN rest
             ELSE Ok(first.value + rest.value)

\* The body of the try block: response is what the metrics API call gave,
\* Raise(e) when the call raised, Ok(dict) otherwise.
TryMemoryUtilization(resource_type, response) ==
    IF resource_type = "node" THEN
        IF ~response.ok THEN response
        ELSE IF ~ValidNodeMetrics(response.value) THEN Raise("ValidationError")
        ELSE parse_memory(response.value.usage.memory)
    ELSE IF resource_type = "pod" THEN
        IF ~response.ok THEN response
        ELSE IF ~ValidPodMetrics(response.value) THEN Raise("ValidationError")
        ELSE SumMemory(response.value.containers)
    ELSE Raise("Unsupported resource type")

\* except Exception: print the error, return None.
get_memory_utilization(resource_type, response) ==
    LET r == TryMemoryUtilization(resource_type, response)
    IN  IF r.ok THEN Some(r.value) ELSE None

----------------------------------------------------------------------------
(* The responses of the metrics API that the model draws from. *)

NodeMetricsOf(memory) ==
    [apiVersion |-> "metrics.k8s.io/v1beta1", kind |-> "NodeMetrics",
     metadata |-> "m", timestamp |-> "t", window |-> "w",
     usage |-> [cpu |-> "1", memory |-> memory]]

ContainerOf(memory) == [name |-> "c", usage |-> [cpu |-> "1", memory |-> memory]]

PodMetricsOf(containers) ==
    [apiVersion |-> "metrics.k8s.io/v1beta1", kind |-> "PodMetrics",
     metadata |-> "m", timestamp |-> "t", window |-> "w",
     containers |-> containers]

RECURSIVE ContainerLists(_, _)
ContainerLists(quantities, n) ==
    IF n = 0 THEN {<<>>}
    ELSE LET shorter == ContainerLists(quantities, n - 1)
         IN  shorter \cup {Append(s, ContainerOf(q)) : s \in shorter, q \in quantities}

\* A transport error, a response without a required field, and the
\* well-formed responses over the given quantity strings.
NodeResponses(quantities) ==
    {Raise("ApiException"),
     Ok([apiVersion |-> "metrics.k8s.io/v1beta1", kind |-> "NodeMetrics",
         metadata |-> "m", timestamp |-> "t", window |-> "w"])}
    \cup {Ok(NodeMetricsOf(q)) : q \in quantities}

PodResponses(quantities) ==
    {Raise("ApiException"),
     Ok([apiVersion |-> "metrics.k8s.io/v1beta1", kind |-> "PodMetrics",
         metadata |-> "m", timestamp |-> "t",
         containers |-> <<ContainerOf(<<"5", "0", "M">>)>>]),
     Ok(PodMetricsOf(<<[name |-> "c"]>>))}
    \cup {Ok(PodMetricsOf(cs)) : cs \in ContainerLists(quantities, MaxContainers)}

\* "512Ki" is 0 MiB, "2X" and "1.5G" do not parse.
FetchQuantities ==
    {<<"5", "1", "2", "K", "i">>, <<"5", "0", "M">>, <<"1", "G">>,
     <<"2", "X">>, <<"1", ".", "5", "G">>}

----------------------------------------------------------------------------
(* The cluster the model runs against. *)

NodeNames == <<"n1", "n2", "n3", "n4">>

\* status.capacity["memory"] of a node: 1000 MiB, and one KiB less.
Capacities ==
    {<<"1", "0", "2", "4", "0", "0", "0", "K", "i">>,
     <<"1", "0", "2", "3", "9", "9", "9", "K", "i">>}

\* What list_node can return: up to MaxNodes nodes, each with a capacity.
RECURSIVE NodeLists(_)
NodeLists(n) ==
    IF n = 0 THEN {<<>>}
    ELSE LET shorter == NodeLists(n - 1)
         IN  shorter \cup
             {Append(s, [name |-> NodeNames[n], capacity |-> c]) :
                 s \in {x \in shorter : Len(x) = n - 1}, c \in Capacities}

Owner(kind, name) == [kind |-> kind, name |-> name]

Pod(name, namespace, node_name, owner_references, labels) ==
    [name |-> name, namespace |-> namespace, node_name |-> node_name,
     owner_references |-> owner_references, labels |-> labels]

\* The pods of the cluster, in the order the API lists them.
ClusterPods ==
    << Pod("web-1", "a", "n1", <<Owner("ReplicaSet", "web-rs")>>, {<<"app", "web">>}),
       Pod("bare", "b", "n1", <<>>, {<<"app", "web">>}),
       Pod("job-1", "b", "n1",
           <<Owner("Job", "batch"), Owner("ReplicaSet", "web-rs")>>, {<<"app", "job">>}),
       Pod("db-0", "b", "n1", <<Owner("StatefulSet", "db")>>, {<<"app", "db">>}),
       Pod("web-2", "a", "n2", <<Owner("ReplicaSet", "web-rs")>>,
           {<<"app", "web">>, <<"tier", "front">>}),
       Pod("api-1", "a", "n2", <<Owner("Deployment", "api")>>, {<<"app", "api">>}),
       Pod("old-1", "a", "n2", <<Owner("Deployment", "old")>>, {<<"app", "old">>}),
       Pod("agent-1", "b", "n2", <<Owner("DaemonSet", "agent")>>, {<<"app", "agent">>}),
       Pod("web-3", "a", "n3", <<Owner("ReplicaSet", "web-rs")>>, {<<"app", "web">>}),
       Pod("db-1", "b", "n3", <<Owner("StatefulSet", "db")>>, {<<"app", "db">>}),
       Pod("lone", "a", "n4", <<>>, {}) >>

Controller(kind, name, namespace, owner_references, match_labels) ==
    [kind |-> kind, name |-> name, namespace |-> namespace,
     owner_references |-> owner_references, match_labels |-> match_labels]

\* The controllers of the cluster, in the order the API lists them.  The
\* selector of the DaemonSet has no matchLabels (match_labels is None).
ClusterControllers ==
    << Controller("ReplicaSet", "web-rs", "a", <<>>, Some({<<"app", "web">>})),
       Controller("ReplicaSet", "api-rs-0", "a", <<Owner("Deployment", "other")>>,
                  Some({<<"app", "other">>})),
       Controller("ReplicaSet", "api-rs", "a",
                  <<Owner("HorizontalPodAutoscaler", "api"), Owner("Deployment", "api")>>,
                  Some({<<"app", "api">>})),
       Controller("StatefulSet", "db", "b", <<>>, Some({<<"app", "db">>})),
       Controller("DaemonSet", "agent", "b", <<>>, None) >>

\* list_pod_for_all_namespaces(field_selector="spec.nodeName=<node_name>")
PodsOnNode(node_name) == SelectSeq(ClusterPods, LAMBDA p : p.node_name = node_name)

\* list_namespaced_pod(namespace, label_selector="k1=v1,k2=v2"): the pods
\* of the namespace that carry every label of the selector.
PodsMatching(namespace, match_labels) ==
    SelectSeq(ClusterPods,
              LAMBDA p : p.namespace = namespace /\ match_labels \subseteq p.labels)

\* list_namespaced_replica_set(namespace)
ReplicaSetsIn(namespace) ==
    SelectSeq(ClusterControllers,
              LAMBDA c : c.kind = "ReplicaSet" /\ c.namespace = namespace)

\* read_namespaced_replica_set / _stateful_set / _daemon_set (name, namespace):
\* the object, or the API's 404.
ReadController(kind, name, namespace) ==
    LET found == SelectSeq(ClusterControllers,
                           LAMBDA c : c.kind = kind /\ c.name = name
                                      /\ c.namespace = namespace)
    IN  IF found = <<>> THEN Raise("ApiException") ELSE Ok(found[1])

\* The API call of the controller level that raises, if one does.
Faults == {"none", "read", "list_pods", "list_replica_sets"}

----------------------------------------------------------------------------
(* fetch_pods_for_controller and get_controller_kind_and_name *)

\* A mutant of UnsupportedControllerKind: an empty pod set instead of the error.
UnsupportedControllerKind_Empty(controller_kind) == Ok(<<>>)

\* Line 107, reached when the Deployment branch finds no ReplicaSet and for
\* every other kind.
UnsupportedControllerKind(controller_kind) == Raise("Unsupported controller kind")

\* for rs in replicasets: ... for owner in rs.metadata.owner_references:
\* the first ReplicaSet with an owner reference to the Deployment, as an
\* Optional.
RECURSIVE FirstReplicaSetOf(_, _)
FirstReplicaSetOf(replicasets, controller_name) ==
    IF replicasets = <<>> THEN None
    ELSE LET rs == Head(replicasets)
         IN  IF \E x \in 1..Len(rs.owner_references) :
                    /\ rs.owner_references[x].kind = "Deployment"
                    /\ rs.owner_references[x].name = controller_name
             THEN Some(rs)
             ELSE FirstReplicaSetOf(Tail(replicasets), controller_name)

RECURSIVE fetch_pods_for_controller(_, _, _, _)
fetch_pods_for_controller(controller_kind, controller_name, namespace, fault) ==
    IF controller_kind \in {"ReplicaSet", "StatefulSet", "DaemonSet"} THEN
        LET read == IF fault = "read" THEN Raise("ApiException")
                    ELSE ReadController(controller_kind, controller_name, namespace)
        IN  IF ~read.ok THEN read
            \* match_labels.items() of None
            ELSE IF read.value.match_labels = None THEN Raise("AttributeError")
            ELSE IF fault = "list_pods" THEN Raise("ApiException")
            ELSE Ok(PodsMatching(namespace, read.value.match_labels[1]))
    ELSE IF controller_kind = "Deployment" THEN
        IF fault = "list_replica_sets" THEN Raise("ApiException")
        ELSE LET rs == FirstReplicaSetOf(ReplicaSetsIn(namespace), controller_name)
             IN  IF rs # None
                 THEN fetch_pods_for_controller("ReplicaSet", rs[1].name, namespace, fault)
                 ELSE UnsupportedControllerKind(controller_kind)
    ELSE UnsupportedControllerKind(controller_kind)

\* A mutant of get_controller_kind_and_name: the last owner reference.
get_controller_kind_and_name_Last(pod) ==
    IF pod.owner_references # <<>>
    THEN <<Some(pod.owner_references[Len(pod.owner_references)].kind),
           Some(pod.owner_references[Len(pod.owner_references)].name)>>
    ELSE <<None, None>>

\* for owner in owner_references: return owner.kind, owner.name
get_controller_kind_and_name(pod) ==
    IF pod.owner_references # <<>>
    THEN <<Some(pod.owner_references[1].kind), Some(pod.owner_references[1].name)>>
    ELSE <<None, None>>

----------------------------------------------------------------------------
(* The variables of a specification that another specification leaves idle. *)

RunIdle ==
    /\ pc = "idle"
    /\ nodes = <<>> /\ i = 0 /\ node_table = <<>> /\ high_usage_nodes = <<>>
    /\ h = 0 /\ pods = <<>> /\ j = 0 /\ pod_table = <<>>
    /\ highest_usage_pod = None /\ highest_usage = 0
    /\ controller = None /\ controller_pods = <<>> /\ k = 0
    /\ controller_table = <<>> /\ console = <<>> /\ requests = <<>>
    /\ measured = <<>>

ParseIdle == value = <<>> /\ parsed = None
FetchIdle == call = None /\ fetched = None

----------------------------------------------------------------------------
(* analyze_nodes *)

HighUsagePercent == 80

\* str.rstrip(chars)
RECURSIVE RStrip(_, _)
RStrip(s, chars) ==
    IF s # <<>> /\ s[Len(s)] \in chars
    THEN RStrip(SubSeq(s, 1, Len(s) - 1), chars)
    ELSE s

\* int(node.status.capacity["memory"].rstrip("Ki")): the capacity in KiB.
\* memory_capacity is this number / 1024.
CapacityKi(node) == IntOf(RStrip(node.capacity, {"K", "i"}))

\* A mutant of HighUsage: 80% counts as high.
HighUsage_AtLeast(used_memory, capacity_ki) ==
    used_memory * 1024 * 100 >= HighUsagePercent * capacity_ki

\* (used_memory / memory_capacity) * 100 > 80 with memory_capacity =
\* capacity_ki / 1024, as a comparison of integers.  The division by 1024
\* is exact in binary floating point and the two roundings that follow move
\* the value by less than 1e-13, so the float comparison agrees with this
\* one whenever the utilization is 80 or differs from 80 by more than that,
\* which it does for every capacity below 2^40 KiB.
HighUsage(used_memory, capacity_ki) ==
    used_memory * 1024 * 100 > HighUsagePercent * capacity_ki

\* math.ceil(memory_capacity)
CeilMi(capacity_ki) == (capacity_ki + 1023) \div 1024

\* The row of a node (the utilization cell, a rendering of the same
\* quotient to two decimals, is left out).
NodeRow(node, used_memory) ==
    [name |-> node.name,
     capacity |-> CeilMi(CapacityKi(node)),
     usage |-> used_memory,
     status |-> IF HighUsage(used_memory, CapacityKi(node)) THEN "High Usage" ELSE "OK"]

\* A mutant of AddNodeRow: a node without a measurement gets a row with usage 0.
AddNodeRow_ZeroFill(table, node, used) ==
    Append(table, NodeRow(node, IF used = None THEN 0 ELSE used[1]))

\* Lines 171-186: no row for a node without a measurement.
AddNodeRow(table, node, used) ==
    IF used = None THEN table ELSE Append(table, NodeRow(node, used[1]))

\* Lines 171-178.
AddHighUsageNode(high, node, used) ==
    IF used = None THEN high
    ELSE IF HighUsage(used[1], CapacityKi(node)) THEN Append(high, node.name)
    ELSE high

\* A mutant of SendRequest: the request is sent a second time.
SendRequest_Twice(reqs, resource_type, namespace, name) ==
    LET request == [type |-> resource_type, namespace |-> namespace, name |-> name]
    IN  Append(Append(reqs, request), request)

\* The request get_memory_utilization sends: one per call.
SendRequest(reqs, resource_type, namespace, name) ==
    Append(reqs, [type |-> resource_type, namespace |-> namespace, name |-> name])

\* "800M" and "801M" are 80% and 80.1% of 1000 MiB.
RunNodeQuantities ==
    {<<"8", "0", "0", "M">>, <<"8", "0", "1", "M">>, <<"2", "X">>}

\* "512Ki" is 0 MiB.
RunPodQuantities == {<<"5", "1", "2", "K", "i">>, <<"5", "0", "M">>, <<"2", "X">>}

\* Line 156, and the uncaught exception when list_node raises.
ListNodes ==
    /\ pc = "list_nodes"
    /\ \/ /\ pc' = "aborted"
          /\ UNCHANGED nodes
       \/ /\ nodes' \in NodeLists(MaxNodes)
          /\ pc' = "analyze_nodes"
    /\ i' = 1
    /\ UNCHANGED <<node_table, high_usage_nodes, h, pods, j, pod_table,
                   highest_usage_pod, highest_usage, controller, controller_pods,
                   k, controller_table, console, requests, measured, parseVars, fetchVars>>

\* One iteration of the loop of analyze_nodes, lines 166-186.
AnalyzeNode ==
    /\ pc = "analyze_nodes"
    /\ i <= Len(nodes)
    /\ \E response \in NodeResponses(RunNodeQuantities) :
          LET node == nodes[i]
              used_memory == get_memory_utilization("node", response)
          IN  /\ requests' = SendRequest(requests, "node", "", node.name)
              /\ measured' = Append(measured, used_memory)
              /\ node_table' = AddNodeRow(node_table, node, used_memory)
              /\ high_usage_nodes' = AddHighUsageNode(high_usage_nodes, node, used_memory)
    /\ i' = i + 1
    /\ UNCHANGED <<pc, nodes, h, pods, j, pod_table, highest_usage_pod,
                   highest_usage, controller, controller_pods, k,
                   controller_table, console, parseVars, fetchVars>>

\* Lines 188-189 and 250: the table is printed, analyze_nodes returns its
\* list (its other locals are gone) and run starts its loop.
PrintNodeTable ==
    /\ pc = "analyze_nodes"
    /\ i > Len(nodes)
    /\ console' = Append(console, [print |-> "node table"])
    /\ pc' = "run"
    /\ h' = 1
    /\ nodes' = <<>>
    /\ i' = 0
    /\ node_table' = <<>>
    /\ measured' = <<>>
    /\ UNCHANGED <<high_usage_nodes, pods, j, pod_table,
                   highest_usage_pod, highest_usage, controller, controller_pods,
                   k, controller_table, requests, parseVars, fetchVars>>

----------------------------------------------------------------------------
(* analyze_pods_on_node *)

\* Lines 212-214.
TrackHighest(highest, pod, pod_memory) ==
    IF pod_memory = None THEN highest
    ELSE IF pod_memory[1] > highest.usage
    THEN [usage |-> pod_memory[1], pod |-> Some(pod)]
    ELSE highest

\* Lines 209-216.
AddPodRow(table, pod, pod_memory) ==
    IF pod_memory = None THEN table
    ELSE Append(table, [name |-> pod.name, namespace |-> pod.namespace,
                        usage |-> pod_memory[1]])

\* Lines 252-253 and 195-202: the next high-usage node, its pods listed;
\* an exception of the list call is not caught.
ListPods ==
    /\ pc = "run"
    /\ h <= Len(high_usage_nodes)
    /\ \/ /\ pc' = "aborted"
          /\ UNCHANGED <<pods, j, pod_table, highest_usage_pod, highest_usage>>
       \/ /\ pods' = PodsOnNode(high_usage_nodes[h])
          /\ j' = 1
          /\ pod_table' = <<>>
          /\ highest_usage_pod' = None
          /\ highest_usage' = 0
          /\ pc' = "analyze_pods"
    /\ UNCHANGED <<nodes, i, node_table, high_usage_nodes, h, controller,
                   controller_pods, k, controller_table, console, requests,
                   measured, parseVars, fetchVars>>

\* One iteration of the loop of analyze_pods_on_node, lines 204-216.
AnalyzePod ==
    /\ pc = "analyze_pods"
    /\ j <= Len(pods)
    /\ \E response \in PodResponses(RunPodQuantities) :
          LET pod == pods[j]
              pod_memory == get_memory_utilization("pod", response)
              highest == TrackHighest([usage |-> highest_usage, pod |-> highest_usage_pod],
                                      pod, pod_memory)
          IN  /\ requests' = SendRequest(requests, "pod", pod.namespace, pod.name)
              /\ highest_usage' = highest.usage
              /\ highest_usage_pod' = highest.pod
              /\ measured' = Append(measured, pod_memory)
              /\ pod_table' = AddPodRow(pod_table, pod, pod_memory)
    /\ j' = j + 1
    /\ UNCHANGED <<pc, nodes, i, node_table, high_usage_nodes, h, pods,
                   controller, controller_pods, k, controller_table, console,
                   parseVars, fetchVars>>

\* Lines 218-219 and 255-258: the table is printed, the pod returned, and
\* run calls analyze_controller when the pod has a controller.
PrintPodTable ==
    /\ pc = "analyze_pods"
    /\ j > Len(pods)
    /\ console' = Append(console, [print |-> "pod table", node |-> high_usage_nodes[h]])
    /\ IF highest_usage_pod # None
       THEN LET owner == get_controller_kind_and_name(highest_usage_pod[1])
            IN  IF owner[1] # None /\ owner[2] # None
                THEN /\ controller' = Some([kind |-> owner[1][1], name |-> owner[2][1],
                                            namespace |-> highest_usage_pod[1].namespace])
                     /\ pc' = "analyze_controller"
                     /\ h' = h
                ELSE /\ controller' = None
                     /\ pc' = "run"
                     /\ h' = h + 1
       ELSE /\ controller' = None
            /\ pc' = "run"
            /\ h' = h + 1
    /\ pods' = <<>>
    /\ j' = 0
    /\ pod_table' = <<>>
    /\ highest_usage' = 0
    /\ measured' = <<>>
    /\ UNCHANGED <<nodes, i, node_table, high_usage_nodes, highest_usage_pod,
                   controller_pods, k, controller_table, requests,
                   parseVars, fetchVars>>

----------------------------------------------------------------------------
(* analyze_controller *)

\* Mutants of Catches: no except clause, and one for the API's errors only.
Catches_Nothing(error) == FALSE

Catches_ApiExceptionOnly(error) == error = "ApiException"

\* Line 243: except Exception catches every error raised in the try block.
Catches(error) == TRUE

\* Lines 225-230 and 243-244: the pods of the controller are fetched; an
\* error is printed and analyze_controller returns.
FetchControllerPods ==
    /\ pc = "analyze_controller"
    /\ k = 0
    /\ \E fault \in Faults :
          LET c == controller[1]
              r == fetch_pods_for_controller(c.kind, c.name, c.namespace, fault)
          IN  IF r.ok
              THEN /\ controller_pods' = r.value
                   /\ k' = 1
                   /\ UNCHANGED <<pc, h, controller, console>>
              ELSE IF Catches(r.error)
              THEN /\ console' = Append(console,
                                        [print |-> "controller error", kind |-> c.kind,
                                         name |-> c.name, error |-> r.error])
                   /\ pc' = "run"
                   /\ h' = h + 1
                   /\ controller' = None
                   /\ UNCHANGED <<controller_pods, k>>
              ELSE /\ pc' = "aborted"
                   /\ UNCHANGED <<h, controller, controller_pods, k, console>>
    /\ controller_table' = <<>>
    /\ UNCHANGED <<nodes, i, node_table, high_usage_nodes, pods, j, pod_table,
                   highest_usage_pod, highest_usage, requests, measured, parseVars, fetchVars>>

\* Lines 237-240.
AddControllerRow(table, pod, pod_memory) ==
    IF pod_memory = None THEN table
    ELSE Append(table, [name |-> pod.name, node |-> pod.node_name,
                        usage |-> pod_memory[1]])

\* One iteration of the loop of analyze_controller, lines 232-240.
AnalyzeControllerPod ==
    /\ pc = "analyze_controller"
    /\ k >= 1
    /\ k <= Len(controller_pods)
    /\ \E response \in PodResponses(RunPodQuantities) :
          LET pod == controller_pods[k]
              pod_memory == get_memory_utilization("pod", response)
          IN  /\ requests' = SendRequest(requests, "pod", pod.namespace, pod.name)
              /\ measured' = Append(measured, pod_memory)
              /\ controller_table' = AddControllerRow(controller_table, pod, pod_memory)
    /\ k' = k + 1
    /\ UNCHANGED <<pc, nodes, i, node_table, high_usage_nodes, h, pods, j,
                   pod_table, highest_usage_pod, highest_usage, controller,
                   controller_pods, console, parseVars, fetchVars>>

\* Line 242: the table is printed, analyze_controller returns and run goes
\* on to the next high-usage node.
PrintControllerTable ==
    /\ pc = "analyze_controller"
    /\ k >= 1
    /\ k > Len(controller_pods)
    /\ console' = Append(console, [print |-> "controller table",
                                   kind |-> controller[1].kind,
                                   name |-> controller[1].name])
    /\ pc' = "run"
    /\ h' = h + 1
    /\ controller' = None
    /\ controller_pods' = <<>>
    /\ k' = 0
    /\ controller_table' = <<>>
    /\ measured' = <<>>
    /\ UNCHANGED <<nodes, i, node_table, high_usage_nodes, pods, j, pod_table,
                   highest_usage_pod, highest_usage, requests, parseVars, fetchVars>>

\* Line 252: the loop of run is over.
RunDone ==
    /\ pc = "run"
    /\ h > Len(high_usage_nodes)
    /\ pc' = "done"
    /\ UNCHANGED <<nodes, i, node_table, high_usage_nodes, h, pods, j, pod_table,
                   highest_usage_pod, highest_usage, controller, controller_pods,
                   k, controller_table, console, requests, measured, parseVars, fetchVars>>

----------------------------------------------------------------------------
(* The specification of run. *)

Init ==
    /\ pc = "list_nodes"
    /\ nodes = <<>> /\ i = 0 /\ node_table = <<>> /\ high_usage_nodes = <<>>
    /\ h = 0 /\ pods = <<>> /\ j = 0 /\ pod_table = <<>>
    /\ highest_usage_pod = None /\ highest_usage = 0
    /\ controller = None /\ controller_pods = <<>> /\ k = 0
    /\ controller_table = <<>> /\ console = <<>> /\ requests = <<>>
    /\ measured = <<>>
    /\ ParseIdle /\ FetchIdle

Next ==
    \/ ListNodes
    \/ AnalyzeNode
    \/ PrintNodeTable
    \/ ListPods
    \/ AnalyzePod
    \/ PrintPodTable
    \/ FetchControllerPods
    \/ AnalyzeControllerPod
    \/ PrintControllerTable
    \/ RunDone

Spec == Init /\ [][Next]_vars

----------------------------------------------------------------------------
(* The specification of parse_memory alone: one call on each bounded string. *)

Alphabet == {"0", "1", "7", "K", "i", "M", "G", "X", ".", "\n"}

RECURSIVE StringsUpTo(_)
StringsUpTo(n) ==
    IF n = 0 THEN {<<>>}
    ELSE LET shorter == StringsUpTo(n - 1)
         IN  shorter \cup {Append(s, c) : s \in shorter, c \in Alphabet}

Samples ==
    {<<"6", "3", "7", "4", "M">>, <<"1", "0", "2", "4", "K", "i">>,
     <<"2", "0", "4", "7", "K", "i">>, <<"2", "0", "4", "8", "K", "i">>,
     <<"5", "0", "0">>, <<"1", "2", "M", "i">>, <<"1", "2", "G", "i">>,
     <<"1", "5", "M", "\n">>, <<"1", ".", "5", "G">>, <<"1", "2", "K", "i", "B">>}

InitParse ==
    /\ value \in StringsUpTo(MaxLen) \cup Samples
    /\ parsed = None
    /\ RunIdle /\ FetchIdle

ParseMemory ==
    /\ parsed = None
    /\ parsed' = Some(parse_memory(value))
    /\ UNCHANGED <<value, runVars, fetchVars>>

NextParse == ParseMemory

SpecParse == InitParse /\ [][NextParse]_vars

----------------------------------------------------------------------------
(* The specification of get_memory_utilization alone: one call on each     *)
(* resource type and response.                                             *)

InitFetch ==
    /\ call \in {Some([resource_type |-> t, response |-> r]) :
                    t \in {"node", "pod", "deployment"},
                    r \in NodeResponses(FetchQuantities) \cup PodResponses(FetchQuantities)}
    /\ fetched = None
    /\ RunIdle /\ ParseIdle

GetMemoryUtilization ==
    /\ fetched = None
    /\ fetched' = Some(get_memory_utilization(call[1].resource_type, call[1].response))
    /\ UNCHANGED <<call, runVars, parseVars>>

NextFetch == GetMemoryUtilization

SpecFetch == InitFetch /\ [][NextFetch]_vars

----------------------------------------------------------------------------
(* Properties.  Helpers first. *)

RowNames(rows) == [x \in 1..Len(rows) |-> rows[x].name]

ObjectNames(objects) == [x \in 1..Len(objects) |-> objects[x].name]

Range(seq) == {seq[x] : x \in 1..Len(seq)}

\* The positions of the current loop whose fetch gave no measurement.
Failed == {x \in 1..Len(measured) : measured[x] = None}

Without(seq, x) == SubSeq(seq, 1, x - 1) \o SubSeq(seq, x + 1, Len(seq))

\* The values of the measurements taken, in order.
RECURSIVE Measurements(_)
Measurements(ms) ==
    IF ms = <<>> THEN <<>>
    ELSE IF Head(ms) = None THEN Measurements(Tail(ms))
    ELSE <<Head(ms)[1]>> \o Measurements(Tail(ms))

NodesLoopDone == pc = "analyze_nodes" /\ i > Len(nodes)

\* C1: when the fetch fails for exactly one of the listed nodes, the node table
\* at the end of analyze_nodes' loop holds one row for each other node, in
\* listing order and with the usage measured (no row, and no zero, for the
\* failed node), the failed node is not in the high-usage list, and a failed
\* fetch never aborts the run.
C1_FailedNodeSkipped ==
    /\ (NodesLoopDone /\ Cardinality(Failed) = 1) =>
          LET f == CHOOSE x \in Failed : TRUE
          IN  /\ RowNames(node_table) = Without(ObjectNames(nodes), f)
              /\ [x \in 1..Len(node_table) |-> node_table[x].usage]
                     = Measurements(measured)
              /\ nodes[f].name \notin Range(high_usage_nodes)
    /\ Failed # {} => pc # "aborted"

C1_Witness ==
    /\ NodesLoopDone
    /\ Len(nodes) = 2
    /\ Failed = {1}
    /\ Len(node_table) = 1
    /\ node_table[1].name = "n2"

\* The nodes among the first n listed whose measured utilization is above 80%.
RECURSIVE NodesAbove80(_)
NodesAbove80(n) ==
    IF n = 0 THEN <<>>
    ELSE NodesAbove80(n - 1) \o
         (IF /\ measured[n] # None
             /\ measured[n][1] * 1024 * 100 > 80 * CapacityKi(nodes[n])
          THEN <<nodes[n].name>> ELSE <<>>)

\* C3: throughout analyze_nodes' loop the high-usage list is exactly the nodes
\* seen so far that have a measurement with usage/capacity*100 > 80 (80 itself
\* excluded), each once and in listing order, and a row shows the high status
\* if and only if its node is in the list.
C3_HighUsageList ==
    pc = "analyze_nodes" =>
        /\ Len(measured) = i - 1
        /\ high_usage_nodes = NodesAbove80(i - 1)
        /\ \A x, y \in 1..Len(high_usage_nodes) :
              high_usage_nodes[x] = high_usage_nodes[y] => x = y
        /\ \A x \in 1..Len(node_table) :
              node_table[x].status = "High Usage"
                  <=> node_table[x].name \in Range(high_usage_nodes)

\* A node at exactly 80% (800 of 1000 MiB) with status OK beside a node in the list.
C3_Witness ==
    /\ NodesLoopDone
    /\ Len(node_table) = 2
    /\ node_table[1].usage = 800 /\ node_table[1].capacity = 1000
    /\ node_table[1].status = "OK"
    /\ high_usage_nodes = <<"n2">>

PodsLoopDone == pc = "analyze_pods" /\ j > Len(pods)

\* C2: at the end of analyze_pods_on_node's loop the pod returned is the
\* earliest listed pod whose measurement is the maximum of the measurements
\* taken, and it is None only when no pod has a measurement.
C2_TopPodIsEarliestMaximum ==
    PodsLoopDone =>
        LET got == (1..Len(pods)) \ Failed
        IN  IF got = {} THEN highest_usage_pod = None
            ELSE \E x \in got :
                    /\ \A y \in got : measured[y][1] <= measured[x][1]
                    /\ \A y \in got : measured[y][1] = measured[x][1] => x <= y
                    /\ highest_usage_pod = Some(pods[x])

SupportedKinds == {"Deployment", "ReplicaSet", "StatefulSet", "DaemonSet"}

\* No ReplicaSet of the namespace has an owner reference to the Deployment.
NoReplicaSetOf(name, namespace) ==
    \A x \in 1..Len(ClusterControllers) :
        LET c == ClusterControllers[x]
        IN  (c.kind = "ReplicaSet" /\ c.namespace = namespace) =>
                \A y \in 1..Len(c.owner_references) :
                    ~(c.owner_references[y].kind = "Deployment"
                      /\ c.owner_references[y].name = name)

ControllerError(c, error) ==
    [print |-> "controller error", kind |-> c.kind, name |-> c.name, error |-> error]

AtControllerFetch == pc = "analyze_controller" /\ k = 0

DeploymentWithoutReplicaSet ==
    /\ AtControllerFetch
    /\ controller[1].kind = "Deployment"
    /\ NoReplicaSetOf(controller[1].name, controller[1].namespace)

PodTablesPrinted ==
    LET tables == SelectSeq(console, LAMBDA e : e.print = "pod table")
    IN  [x \in 1..Len(tables) |-> tables[x].node]

\* C5: a failure of the controller level is caught and printed by
\* analyze_controller and run goes on to the next high-usage node; the
\* controller level is never left to an aborted run, and a run that ends has
\* analysed the pods of every high-usage node, in order.
C5_ControllerFailureDoesNotAbort ==
    /\ [][(pc = "analyze_controller" /\ pc' # "analyze_controller") =>
             /\ pc' = "run" /\ h' = h + 1
             /\ k = 0 => \E e \in {"Unsupported controller kind", "ApiException",
                                   "AttributeError"} :
                             console' = Append(console, ControllerError(controller[1], e))]_vars
    /\ [](pc = "done" => PodTablesPrinted = high_usage_nodes)

C5_Witness ==
    /\ pc = "done"
    /\ \E x, y \in 1..Len(console) :
          /\ x < y
          /\ console[x].print = "controller error"
          /\ console[y] = [print |-> "pod table", node |-> "n2"]

\* C6 as stated: an unsupported controller kind propagates out of run and
\* ends it.
C6_Original ==
    [][(AtControllerFetch /\ controller[1].kind \notin SupportedKinds) =>
          pc' = "aborted"]_vars

\* C6, amended: an unsupported controller kind raises in
\* fetch_pods_for_controller and is caught by analyze_controller, which prints
\* the error; run goes on to the next high-usage node.
C6_UnsupportedKindIsCaught ==
    [][(AtControllerFetch /\ controller[1].kind \notin SupportedKinds) =>
          /\ console' = Append(console,
                               ControllerError(controller[1], "Unsupported controller kind"))
          /\ pc' = "run" /\ h' = h + 1]_vars

C6_Witness ==
    \E x, y \in 1..Len(console) :
        /\ x < y
        /\ console[x] = [print |-> "controller error", kind |-> "Job",
                         name |-> "batch", error |-> "Unsupported controller kind"]
        /\ console[y].print = "pod table"

\* value is one or more digits followed by letters only: <<d, l>> with
\* d digits, then l letters, and nothing after them.
DigitsThenLetters(s) ==
    {m \in (1..Len(s)) \X (0..Len(s)) :
        /\ m[1] + m[2] = Len(s)
        /\ \A x \in 1..m[1] : s[x] \in Digits
        /\ \A x \in (m[1] + 1)..Len(s) : s[x] \in Letters}

\* C7: parse_memory returns n for n with unit M, Mi or none, n * 1024 for G
\* or Gi, n / 1024 truncated for Ki, and fails for any other unit and for
\* any string that is not digits followed by letters.
C7_ParseMemoryTotal ==
    parsed # None =>
        LET r == parsed[1]
        IN  IF DigitsThenLetters(value) = {} THEN ~r.ok
            ELSE LET m == CHOOSE x \in DigitsThenLetters(value) : TRUE
                     n == IntOf(SubSeq(value, 1, m[1]))
                     unit == SubSeq(value, m[1] + 1, Len(value))
                 IN  IF unit \in {<<>>, <<"M">>, <<"M", "i">>}
                     THEN r.ok /\ r.value = n
                     ELSE IF unit \in {<<"G">>, <<"G", "i">>}
                     THEN r.ok /\ r.value = n * 1024
                     ELSE IF unit = <<"K", "i">>
                     THEN r.ok /\ r.value = n \div 1024
                     ELSE ~r.ok

RECURSIVE SumOf(_)
SumOf(numbers) == IF numbers = <<>> THEN 0 ELSE Head(numbers) + SumOf(Tail(numbers))

\* C8: for a pod, get_memory_utilization returns the sum of the parsed
\* quantities of all containers (0 for none), and None, never a partial sum,
\* when the call raised, the response is not valid, or one quantity does
\* not parse.
C8_PodUsageIsSumOrNone ==
    (fetched # None /\ call[1].resource_type = "pod") =>
        LET response == call[1].response
            complete == response.ok /\ ValidPodMetrics(response.value)
            quantities == [x \in 1..Len(response.value.containers) |->
                              parse_memory(response.value.containers[x].usage.memory)]
        IN  IF complete /\ \A x \in 1..Len(quantities) : quantities[x].ok
            THEN fetched[1] =
                     Some(SumOf([x \in 1..Len(quantities) |-> quantities[x].value]))
            ELSE fetched[1] = None

C8_Witness ==
    /\ call # None
    /\ call[1].resource_type = "pod"
    /\ call[1].response =
           Ok(PodMetricsOf(<<ContainerOf(<<"5", "0", "M">>), ContainerOf(<<"1", "G">>)>>))
    /\ fetched = Some(Some(1074))

RequestOf(resource_type, object) ==
    [type |-> resource_type,
     namespace |-> IF resource_type = "node" THEN "" ELSE object.namespace,
     name |-> object.name]

\* The last n requests are those for the first n of the objects, in order.
LastRequestsAre(resource_type, objects, n) ==
    /\ Len(requests) >= n
    /\ SubSeq(requests, Len(requests) - n + 1, Len(requests))
           = [x \in 1..n |-> RequestOf(resource_type, objects[x])]

\* C9 as stated: no node or pod has its metrics requested more than once
\* during the run.
C9_Original ==
    \A x, y \in 1..Len(requests) : requests[x] = requests[y] => x = y

\* C9, amended: every iteration of a loop sends exactly one request, for
\* the node or pod it is at, whether the fetch succeeds or fails: inside a
\* loop the requests sent are those for the objects passed, once each and
\* in order, and no other step sends a request.
C9_OneRequestPerIteration ==
    /\ [](pc = "analyze_nodes" =>
             /\ LastRequestsAre("node", nodes, i - 1)
             /\ Len(requests) = i - 1)
    /\ [](pc = "analyze_pods" => LastRequestsAre("pod", pods, j - 1))
    /\ [](pc = "analyze_controller" /\ k >= 1 =>
             LastRequestsAre("pod", controller_pods, k - 1))
    /\ [][requests' =
             IF pc = "analyze_nodes" /\ i' = i + 1
             THEN Append(requests, RequestOf("node", nodes[i]))
             ELSE IF pc = "analyze_pods" /\ j' = j + 1
             THEN Append(requests, RequestOf("pod", pods[j]))
             ELSE IF pc = "analyze_controller" /\ k >= 1 /\ k' = k + 1
             THEN Append(requests, RequestOf("pod", controller_pods[k]))
             ELSE requests]_vars

\* The top pod of n1 is requested again at the controller level, after a
\* failed and a successful request at the pod level.
C9_Witness ==
    /\ pc = "done"
    /\ \E x, y \in 1..Len(requests) :
          /\ x < y
          /\ requests[x] = requests[y]
          /\ requests[x] = [type |-> "pod", namespace |-> "a", name |-> "web-1"]

ControllerPrints == {"controller table", "controller error"}

====
